---- MODULE Spec2Model ----
(***************************************************************************)
(* Model of get_audit_logs.py: the retrying request executor               *)
(* (VerkadaSession.request), the page aggregator                           *)
(* (VerkadaSession.request_all_pages) and the API client (VerkadaAPI) with *)
(* its cached credential in token.json.                                    *)
(***************************************************************************)
EXTENDS Integers, Sequences, FiniteSets, TLC

\* ------------------------------------------------------------ constants
RETRY_WAIT_TIME == 10
MAX_RETRIES == 3
DEFAULT_TOKEN_EXPIRATION_TIME == 25

\* ------------------------------------------------------------ bounds
\* HTTP attempts one call of request may make in the model (a 401 or an
\* unclassified status consumes no retry, so the code itself has no bound).
MaxAttempts == 4
\* Pages one call of request_all_pages may fetch in the model (the code has no
\* bound: it follows next_page_token for as long as the server sends one).
MaxPages == 2

None == "None"
NoBody == [tag |-> "nobody", json |-> {}]

\* Status codes the server may answer with: one or two of every class the
\* code tells apart, and the edges of the classes.
Statuses == {100, 200, 299, 304, 400, 401, 409, 429, 499, 500, 503}
\* Exceptions session.request may raise: the two transport failures, another
\* RequestException, and an exception outside the requests hierarchy.
TransportExceptions == {"ConnectionError", "Timeout"}
RequestExceptions == TransportExceptions \cup {"TooManyRedirects"}
Exceptions == RequestExceptions \cup {"ValueError"}

\* What one HTTP attempt ends in: a response (exc = None) or an exception.
ResponseOutcome(s, b) == [status |-> s, exc |-> None, body |-> b]
ExceptionOutcome(e) == [status |-> 0, exc |-> e, body |-> NoBody]
BareOutcomes ==
    {ResponseOutcome(s, NoBody) : s \in Statuses}
        \cup {ExceptionOutcome(e) : e \in Exceptions}

\* Errors request raises.
NoErr == [type |-> None, msg |-> None]
NoResponse == [status |-> 0, exc |-> None, body |-> NoBody]
NoLog == "nothing logged"
NoRequest == [method |-> None, url |-> None,
              headers |-> [name |-> None, value |-> None], params |-> {}]
Err(t, m) == [type |-> t, msg |-> m]

VARIABLES
    \* the environment
    now,             \* time.time(), in seconds
    file,            \* the content of token.json
    \* VerkadaSession.request
    rpc,             \* "idle", "loop" (at the while), "returned", "raised"
    retries,         \* retries left
    last_exception,  \* last_exception
    response,        \* the response returned
    err,             \* the error raised
    req,             \* the arguments of the call (method, url, kwargs)
    wire,            \* the requests this call has sent on the network, in order
    log,             \* what the latest pass of request's loop logged
    hist,            \* per attempt of a call made on its own: outcome and sleep
    \* VerkadaAPI
    cpc,             \* where the client is: "none", "readToken", "init",
                     \* "ready", "pages", "failed"
    api_key,         \* self.api_key
    token,           \* self.token
    timestamp,       \* self.timestamp
    \* VerkadaSession.request_all_pages
    keys,            \* keys
    data,            \* data
    number_of_pages, \* number_of_pages
    next_page_token, \* next_page_token
    received,        \* the page responses received by this call, in order
    result           \* what the latest facade operation gave its caller

envVars == <<now, file>>
reqVars == <<rpc, retries, last_exception, response, err, req, wire, log>>
apiVars == <<cpc, api_key, token, timestamp>>
pageVars == <<keys, data, number_of_pages, next_page_token, received>>
vars == <<now, file, rpc, retries, last_exception, response, err, req, wire,
          log, hist, cpc, api_key, token, timestamp, keys, data,
          number_of_pages, next_page_token, received, result>>

\* ------------------------------------------------------------ requests
\* The arguments request passes to session.request unchanged on every attempt.
Request(method, resource, authHeader, authValue, params) ==
    [method |-> method, url |-> resource,
     headers |-> [name |-> authHeader, value |-> authValue],
     params |-> params]

\* ------------------------------------------------ VerkadaSession.request
\* The outcome of one pass through the body of the while loop: what the loop
\* does next (ctl), the retries and last_exception it leaves, the seconds it
\* slept, when it raises, the error, and the message it logged.
Pass(ctl, rt, le, wait, e, msg) ==
    [ctl |-> ctl, retries |-> rt, last_exception |-> le, wait |-> wait, err |-> e,
     log |-> msg]

\* wait_time = (self.max_retries - retries) * RETRY_WAIT_TIME, slept only
\* when a retry is left after the decrement.
Backoff(rt) == IF rt > 0 THEN (MAX_RETRIES - rt) * RETRY_WAIT_TIME ELSE 0

\* A variant that logs the success and does not return.
HandleSuccess_NoReturn(rt, le) ==
    Pass("continue", rt, le, 0, NoErr, "Request successful")

\* 200 <= status < 300: return response.
HandleSuccess(rt, le) == Pass("return", rt, le, 0, NoErr, "Request successful")

\* status == 401: VerkadaTokenExpiredError is raised inside the try and caught
\* by the handler of the same try, which logs and falls through to the while.
HandleTokenExpired(rt, le) ==
    Pass("continue", rt, le, 0, NoErr, "Token expired: Refreshing token")

\* A variant that treats 409 like the other 4xx: retries -= 1, back off.
HandleConflict_Retried(rt, le) ==
    Pass("continue", rt - 1, le, Backoff(rt - 1), NoErr, "Client error")

\* status == 409: VerkadaAuthenticationError is raised inside the try, caught
\* by "except Exception" and raised again.
HandleConflict(rt, le) ==
    Pass("raise", rt, le, 0,
         Err("VerkadaAuthenticationError", "Authentication error: Bad API key or token"),
         "Unexpected error")

\* A variant that backs off on 429 as on a server error.
HandleRateLimited_Backoff(rt, le) ==
    Pass("continue", rt - 1, le, Backoff(rt - 1), NoErr, "Rate limit hit")

\* status == 429: sleep RETRY_WAIT_TIME, retries -= 1, continue.
HandleRateLimited(rt, le) ==
    Pass("continue", rt - 1, le, RETRY_WAIT_TIME, NoErr, "Rate limit hit")

\* A variant that forgets the exception of an earlier attempt.
HandleServerError_ClearsException(rt, le) ==
    Pass("continue", rt - 1, None, Backoff(rt - 1), NoErr, "Server error")

\* 500 <= status: retries -= 1, back off if a retry is left, continue.
HandleServerError(rt, le) ==
    Pass("continue", rt - 1, le, Backoff(rt - 1), NoErr, "Server error")

\* 400 <= status < 500: the same.
HandleClientError(rt, le) ==
    Pass("continue", rt - 1, le, Backoff(rt - 1), NoErr, "Client error")

\* Any other status (below 200, or 300..399): no branch is taken and the
\* try block ends; the while loop tests retries again.
HandleUnclassified(rt, le) == Pass("continue", rt, le, 0, NoErr, NoLog)

\* except (ConnectionError, Timeout) and except RequestException: remember the
\* exception, retries -= 1, back off if a retry is left, continue.
HandleRequestException(rt, e) ==
    Pass("continue", rt - 1, e, Backoff(rt - 1), NoErr,
         IF e \in TransportExceptions THEN "Connection error" ELSE "Request error")

\* except Exception: raise e.
HandleUnexpected(rt, le, e) ==
    Pass("raise", rt, le, 0, Err(e, "unexpected"), "Unexpected error")

\* The if/elif chain on the status, in the order of the code.
HandleResponse(rt, le, status) ==
    IF 200 <= status /\ status < 300 THEN HandleSuccess(rt, le)
    ELSE IF status = 401 THEN HandleTokenExpired(rt, le)
    ELSE IF status = 409 THEN HandleConflict(rt, le)
    ELSE IF status = 429 THEN HandleRateLimited(rt, le)
    ELSE IF 500 <= status THEN HandleServerError(rt, le)
    ELSE IF 400 <= status /\ status < 500 THEN HandleClientError(rt, le)
    ELSE HandleUnclassified(rt, le)

\* One pass through the try statement for the outcome o of session.request.
OnePass(rt, le, o) ==
    IF o.exc = None THEN HandleResponse(rt, le, o.status)
    ELSE IF o.exc \in RequestExceptions THEN HandleRequestException(rt, o.exc)
    ELSE HandleUnexpected(rt, le, o.exc)

\* After the while loop: all retries failed.
AfterLoop(le) ==
    IF le # None
    THEN IF le \in TransportExceptions
         THEN Err("VerkadaConnectionError", "Failed to connect")
         ELSE Err(le, "last_exception")
    ELSE Err("VerkadaConnectionError", "Request failed")

\* One pass followed by the test of the while: with no retry left the loop
\* is left and the code after it raises.
LoopStep(rt, le, o) ==
    LET p == OnePass(rt, le, o) IN
    IF p.ctl = "continue" /\ ~(p.retries > 0)
    THEN [p EXCEPT !.ctl = "raise", !.err = AfterLoop(p.last_exception)]
    ELSE p

\* request is at its while loop with a retry left, and issues an attempt.
CanAttempt ==
    /\ rpc = "loop"
    /\ retries > 0
    /\ Len(wire) < MaxAttempts

\* The locals of request after the pass p that handled outcome o: the loop
\* goes on, or request has returned o, or it has raised p.err.
RequestAfter(p, o) ==
    /\ wire' = Append(wire, req)
    /\ retries' = p.retries
    /\ last_exception' = p.last_exception
    /\ rpc' = CASE p.ctl = "return" -> "returned"
                [] p.ctl = "raise" -> "raised"
                [] OTHER -> "loop"
    /\ response' = IF p.ctl = "return" THEN o ELSE NoResponse
    /\ err' = p.err
    /\ log' = p.log
    /\ UNCHANGED req

\* request(method, url, **kwargs) is entered: retries = self.max_retries,
\* last_exception = None.
RequestEnter(r) ==
    /\ rpc' = "loop"
    /\ retries' = MAX_RETRIES
    /\ last_exception' = None
    /\ response' = NoResponse
    /\ err' = NoErr
    /\ req' = r
    /\ wire' = <<>>
    /\ log' = NoLog

\* ------------------------------------------------------ the environment
\* The clock when the model starts: two expiration windows after the epoch,
\* so that a stored timestamp can lie a whole window in the past.
Epoch == 2 * DEFAULT_TOKEN_EXPIRATION_TIME * 60
ExpirationSeconds == DEFAULT_TOKEN_EXPIRATION_TIME * 60

\* token.json: absent, a JSON object (each of its two fields present or not),
\* or text json.load rejects.
FileAbsent == [tag |-> "absent"]
FileMalformed == [tag |-> "malformed"]
FileJson(hasToken, tok, hasTs, ts) ==
    [tag |-> "json", has_token |-> hasToken, token |-> tok,
     has_timestamp |-> hasTs, timestamp |-> ts]
\* json.dumps({'token': self.token, 'timestamp': self.timestamp})
FileRecord(tok, ts) == FileJson(TRUE, tok, TRUE, ts)

\* A JSON body is the dict response.json() gives; a dict is the set of its
\* <<key, value>> pairs.
Body(tag, json) == [tag |-> tag, json |-> json]

\* Tokens POST /token hands out, and the bodies of its 2xx responses: with a
\* token field, or without one.
ServerTokens == {"tokA", "tokB"}
TokenBodies ==
    {Body("token", {<<"token", t>>}) : t \in ServerTokens}
        \cup {Body("token", {})}

\* The bodies of a 2xx page response of the endpoint whose list field is k:
\* the list, and next_page_token (a string, the empty string, null, or no
\* such key).
PageItems == {<<1>>, <<2, 3>>}
PageTokens == {"t1", "t2", "", None}
PageBodies(k) ==
    {Body("page", {<<k, i>>, <<"next_page_token", t>>}) :
        i \in PageItems, t \in PageTokens}
      \cup {Body("page", {<<k, <<1>>>>})}

AuditUrl == "/core/v1/audit_log"
AlertsUrl == "/cameras/v1/alerts"
ListField(url) == IF url = AuditUrl THEN "audit_logs" ELSE "notifications"

SuccessStatuses == {s \in Statuses : 200 <= s /\ s < 300}
\* What an attempt of request r may end in.
OutcomesFor(r) ==
    {ResponseOutcome(s, b) :
        s \in SuccessStatuses,
        b \in IF r.url = "/token" THEN TokenBodies
              ELSE PageBodies(ListField(r.url))}
      \cup {ResponseOutcome(s, NoBody) : s \in Statuses \ SuccessStatuses}
      \cup {ExceptionOutcome(e) : e \in Exceptions}

\* ------------------------------------------------------------ dictionaries
\* None as the value of self.timestamp and of a timestamp read from the file.
NoTime == 0 - 1

HasKey(d, k) == \E p \in d : p[1] = k
GetItem(d, k) == (CHOOSE p \in d : p[1] = k)[2]
SetItem(d, k, v) == {p \in d : p[1] # k} \cup {<<k, v>>}

\* clean_params: {k: v for k, v in params.items() if v is not None}
clean_params(params) == {p \in params : p[2] # None}

\* Python truthiness of a token or page token: None and "" are false.
Truthy(x) == x # None /\ x # ""

\* ---------------------------------------------------------- VerkadaAPI
NoResult == [op |-> None, status |-> "none", data |-> {}, err |-> NoErr]
Running(op) == [op |-> op, status |-> "running", data |-> {}, err |-> NoErr]
Returned(op, d) == [op |-> op, status |-> "returned", data |-> d, err |-> NoErr]
Raised(op, e) == [op |-> op, status |-> "raised", data |-> {}, err |-> e]

\* The locals of request are gone once its caller has its result.
RequestLeave ==
    /\ rpc' = "idle"
    /\ retries' = 0
    /\ last_exception' = None
    /\ response' = NoResponse
    /\ err' = NoErr
    /\ req' = NoRequest
    /\ wire' = <<>>
    /\ log' = NoLog

\* What __init__, _readToken and _refreshToken log last when they make no
\* call of request, or after the call has returned.
NoKeyLog == "API key not found"
ReadingLog == "Reading token from token.json"
SavedLog == "Token refreshed and saved to token.json"

\* The client logs msg while no call of request is in progress.
Logged(msg) ==
    /\ log' = msg
    /\ UNCHANGED <<rpc, retries, last_exception, response, err, req, wire>>

\* request has returned to _refreshToken, which logs msg at its end.
RequestLeaveLogged(msg) ==
    /\ rpc' = "idle"
    /\ retries' = 0
    /\ last_exception' = None
    /\ response' = NoResponse
    /\ err' = NoErr
    /\ req' = NoRequest
    /\ wire' = <<>>
    /\ log' = msg

\* The locals of request_all_pages before and after a call of it.
NoPages ==
    /\ keys' = {}
    /\ data' = {}
    /\ number_of_pages' = 0
    /\ next_page_token' = None

\* postLoginApiKeyViewV2: POST /token with the API key in x-api-key.
TokenRequest(key) == Request("POST", "/token", "x-api-key", key, {})

\* _refreshToken is entered from `where`: it calls postLoginApiKeyViewV2.
RefreshEnter(where, key) ==
    /\ cpc' = where
    /\ result' = Running("init")
    /\ RequestEnter(TokenRequest(key))

\* A variant that does not read the timestamp back.
Loaded_DropsTimestamp(f) ==
    [token |-> IF f.has_token THEN f.token ELSE None, timestamp |-> NoTime]

\* token_data.get('token'), token_data.get('timestamp')
Loaded(f) ==
    [token |-> IF f.has_token THEN f.token ELSE None,
     timestamp |-> IF f.has_timestamp THEN f.timestamp ELSE NoTime]

\* A variant that also expires a credential exactly one window old.
IsExpired_AtWindow(ts, t) == ts <= t - DEFAULT_TOKEN_EXPIRATION_TIME * 60

\* self.timestamp < int(time.time()) - DEFAULT_TOKEN_EXPIRATION_TIME * 60
IsExpired(ts, t) == ts < t - DEFAULT_TOKEN_EXPIRATION_TIME * 60

\* A variant that asks for a token whatever _readToken has left.
NeedsToken_Always(tok) == TRUE

\* if not self.token (__init__, after _readToken)
NeedsToken(tok) == ~Truthy(tok)

\* The construction has succeeded.
InitDone ==
    /\ cpc' = "ready"
    /\ result' = Returned("init", {})

\* The construction raises e.
InitFails(e) ==
    /\ cpc' = "failed"
    /\ result' = Raised("init", e)

\* VerkadaAPI(api_key): __init__ up to its first HTTP attempt, or to its end.
Construct(key) ==
    /\ cpc \in {"none", "ready", "failed"}
    /\ api_key' = key
    /\ NoPages
    /\ received' = <<>>
    /\ UNCHANGED <<now, file, hist>>
    /\ IF key = None
       THEN \* "API key not found": return
            /\ token' = None
            /\ timestamp' = NoTime
            /\ InitDone
            /\ Logged(NoKeyLog)
       ELSE IF file.tag = "absent"
       THEN \* _readToken: no token.json
            /\ token' = None
            /\ timestamp' = NoTime
            /\ RefreshEnter("readToken", key)
       ELSE IF file.tag = "malformed"
       THEN \* json.load raises
            /\ token' = None
            /\ timestamp' = NoTime
            /\ InitFails(Err("JSONDecodeError", "json.load"))
            /\ Logged(ReadingLog)
       ELSE /\ token' = Loaded(file).token
            /\ timestamp' = Loaded(file).timestamp
            /\ IF Loaded(file).timestamp = NoTime
               THEN \* None < int
                    /\ InitFails(Err("TypeError", "timestamp"))
                    /\ Logged(ReadingLog)
               ELSE IF IsExpired(Loaded(file).timestamp, now)
               THEN RefreshEnter("readToken", key)
               ELSE IF NeedsToken(Loaded(file).token)
               THEN RefreshEnter("init", key)
               ELSE /\ InitDone
                    /\ Logged(ReadingLog)

\* _refreshToken once postLoginApiKeyViewV2 has returned o or raised p.err,
\* and the rest of __init__ behind it.
RefreshResume(p, o) ==
    /\ UNCHANGED <<api_key, pageVars>>
    /\ IF p.ctl = "raise"
       THEN /\ InitFails(p.err)
            /\ RequestLeave
            /\ UNCHANGED <<file, token, timestamp>>
       ELSE IF ~HasKey(o.body.json, "token")
       THEN \* res.json()['token']
            /\ InitFails(Err("KeyError", "token"))
            /\ RequestLeave
            /\ UNCHANGED <<file, token, timestamp>>
       ELSE /\ token' = GetItem(o.body.json, "token")
            /\ timestamp' = now
            /\ file' = FileRecord(GetItem(o.body.json, "token"), now)
            /\ IF cpc = "readToken" /\ NeedsToken(GetItem(o.body.json, "token"))
               THEN RefreshEnter("init", api_key)
               ELSE /\ InitDone
                    /\ RequestLeaveLogged(SavedLog)

\* The process dies inside `with open('token.json', 'w') as f: f.write(...)`
\* of _refreshToken, after postLoginApiKeyViewV2 has returned a token:
\* open(..., 'w') has truncated the file and write fills it in place, so the
\* file is left empty or holding a prefix of the record, which json.load
\* rejects. Nothing of the process is left but the file.
CrashInSave ==
    /\ cpc \in {"readToken", "init"}
    /\ CanAttempt
    /\ \E o \in OutcomesFor(req) :
        /\ LoopStep(retries, last_exception, o).ctl = "return"
        /\ HasKey(o.body.json, "token")
    /\ file' = FileMalformed
    /\ cpc' = "none"
    /\ api_key' = None
    /\ token' = None
    /\ timestamp' = NoTime
    /\ received' = <<>>
    /\ result' = NoResult
    /\ NoPages
    /\ RequestLeave
    /\ UNCHANGED <<now, hist>>

\* ------------------------------------- VerkadaSession.request_all_pages
DEFAULT_PAGE_SIZE == "100"

\* A variant that puts the new page in front of the pages before it.
Extend_Prepend(d, ks, json) == {<<k, GetItem(json, k) \o GetItem(d, k)>> : k \in ks}

\* data[k].extend(response.json()[k]) for k in keys
Extend(d, ks, json) == {<<k, GetItem(d, k) \o GetItem(json, k)>> : k \in ks}

\* while next_page_token or number_of_pages == 0
LoopContinues(npt, n) == Truthy(npt) \/ n = 0

\* kwargs['params']['page_token'] = next_page_token
WithPageToken(r, npt) == [r EXCEPT !.params = SetItem(r.params, "page_token", npt)]

\* The query parameters the callers of the two operations pass.
AuditArgs ==
    {{<<"start_time", None>>, <<"end_time", None>>, <<"page_size", DEFAULT_PAGE_SIZE>>},
     {<<"start_time", "5">>, <<"end_time", "9">>, <<"page_size", None>>}}
AlertsArgs ==
    {{<<"start_time", "5">>, <<"end_time", "9">>, <<"include_image_url", "False">>,
      <<"page_size", DEFAULT_PAGE_SIZE>>, <<"notification_type", None>>}}
Operations == {"getAuditLogsViewV1", "getNotificationsViewV1"}
UrlOf(op) == IF op = "getAuditLogsViewV1" THEN AuditUrl ELSE AlertsUrl
ArgsOf(op) == IF op = "getAuditLogsViewV1" THEN AuditArgs ELSE AlertsArgs

\* The request the facade hands to request_all_pages: the cleaned query
\* parameters and the header built from self.token.
FacadeRequest(op, args, tok) ==
    Request("GET", UrlOf(op), "x-verkada-auth", tok, clean_params(args))

\* getAuditLogsViewV1 / getNotificationsViewV1 up to the first HTTP attempt:
\* the facade builds the request, request_all_pages initialises data and
\* enters its loop for the first page.
StartOp(op, args) ==
    /\ cpc = "ready"
    /\ cpc' = "pages"
    /\ result' = Running(op)
    /\ keys' = {ListField(UrlOf(op))}
    /\ data' = {<<k, <<>>>> : k \in {ListField(UrlOf(op))}}
    /\ number_of_pages' = 1
    /\ next_page_token' = None
    /\ received' = <<>>
    /\ RequestEnter(WithPageToken(FacadeRequest(op, args, token), None))
    /\ UNCHANGED <<now, file, hist, api_key, token, timestamp>>

\* The operation ends: its caller gets r, and the locals are gone.
OpEnds(r) ==
    /\ cpc' = "ready"
    /\ result' = r
    /\ NoPages
    /\ RequestLeave

\* A variant that catches the error and returns what was fetched so far.
OpRaises_ReturnsPartial(e) == OpEnds(Returned(result.op, data))

\* An exception raised in request_all_pages (by request, or by reading the
\* body) leaves it and the facade operation: nothing catches it.
OpRaises(e) == OpEnds(Raised(result.op, e))

\* request_all_pages once request has returned o or raised p.err for a page.
PagesResume(p, o) ==
    /\ UNCHANGED <<file, api_key, token, timestamp>>
    /\ IF p.ctl = "raise"
       THEN /\ OpRaises(p.err)
            /\ UNCHANGED received
       ELSE /\ received' = Append(received,
                                  [sent |-> GetItem(req.params, "page_token"),
                                   json |-> o.body.json])
            /\ IF ~HasKey(o.body.json, "next_page_token")
               THEN OpRaises(Err("KeyError", "next_page_token"))
               ELSE IF \E k \in keys : ~HasKey(o.body.json, k)
               THEN OpRaises(Err("KeyError", "list field"))
               ELSE IF LoopContinues(GetItem(o.body.json, "next_page_token"),
                                     number_of_pages)
               THEN /\ number_of_pages < MaxPages
                    /\ number_of_pages' = number_of_pages + 1
                    /\ next_page_token' = GetItem(o.body.json, "next_page_token")
                    /\ data' = Extend(data, keys, o.body.json)
                    /\ RequestEnter(WithPageToken(req,
                           GetItem(o.body.json, "next_page_token")))
                    /\ UNCHANGED <<cpc, result, keys>>
               ELSE OpEnds(Returned(result.op, Extend(data, keys, o.body.json)))

\* An HTTP attempt of the request call in progress ends in outcome o: request
\* handles it and, when that makes request return or raise, its caller
\* (kind = "token": _refreshToken, kind = "page": request_all_pages) goes on
\* to its next HTTP attempt or to its end.
AttemptOf(kind, o) ==
    LET p == LoopStep(retries, last_exception, o) IN
    /\ CanAttempt
    \* the seconds request sleeps (p.wait) are recorded in hist when request
    \* is called on its own; the clock of the client moves with Tick
    /\ UNCHANGED <<now, hist>>
    /\ IF p.ctl = "continue"
       THEN /\ RequestAfter(p, o)
            /\ UNCHANGED <<file, apiVars, pageVars, result>>
       ELSE IF kind = "token" THEN RefreshResume(p, o) ELSE PagesResume(p, o)

AttemptToken ==
    /\ cpc \in {"readToken", "init"}
    /\ \E o \in OutcomesFor(req) : AttemptOf("token", o)

AttemptPage ==
    /\ cpc = "pages"
    /\ \E o \in OutcomesFor(req) : AttemptOf("page", o)

\* Time passes between two operations of the client.
TickSteps == {ExpirationSeconds + 1}
Tick ==
    /\ cpc \in {"none", "ready", "failed"}
    /\ now < Epoch + ExpirationSeconds
    /\ \E d \in TickSteps : now' = now + d
    /\ UNCHANGED <<file, reqVars, hist, apiVars, pageVars, result>>

\* token.json as an earlier run of the program left it, or not there yet.
InitFiles ==
    {FileAbsent} \cup
    {FileRecord("tok0", Epoch - d) : d \in {0, ExpirationSeconds, ExpirationSeconds + 1}}

InitCommon ==
    /\ now = Epoch
    /\ rpc = "idle"
    /\ retries = 0
    /\ last_exception = None
    /\ response = NoResponse
    /\ err = NoErr
    /\ req = NoRequest
    /\ wire = <<>>
    /\ log = NoLog
    /\ hist = <<>>
    /\ cpc = "none"
    /\ api_key = None
    /\ token = None
    /\ timestamp = NoTime
    /\ keys = {}
    /\ data = {}
    /\ number_of_pages = 0
    /\ next_page_token = None
    /\ received = <<>>
    /\ result = NoResult

Init == InitCommon /\ file \in InitFiles

Next ==
    \/ \E key \in {None, "key"} : Construct(key)
    \/ \E op \in Operations : \E args \in ArgsOf(op) : StartOp(op, args)
    \/ AttemptToken
    \/ AttemptPage
    \/ CrashInSave
    \/ Tick

Spec == Init /\ [][Next]_vars

\* -------------------------------- the request executor called on its own
SampleRequests ==
    {TokenRequest("key"),
     WithPageToken(FacadeRequest("getAuditLogsViewV1", {}, "tokA"), None)}

InitRequest == InitCommon /\ file = FileAbsent

\* Some caller calls request(method, url, **kwargs).
CallRequest ==
    /\ cpc = "none"
    /\ rpc = "idle"
    /\ \E r \in SampleRequests : RequestEnter(r)
    /\ UNCHANGED <<envVars, hist, apiVars, pageVars, result>>

\* An HTTP attempt of that call ends in outcome o; hist records the outcome,
\* the retries left before it and the seconds request slept after it.
AttemptRequest ==
    /\ cpc = "none"
    /\ CanAttempt
    /\ \E o \in BareOutcomes :
        /\ RequestAfter(LoopStep(retries, last_exception, o), o)
        /\ hist' = Append(hist,
                          [outcome |-> o,
                           before |-> retries,
                           slept |-> LoopStep(retries, last_exception, o).wait])
    /\ UNCHANGED <<envVars, apiVars, pageVars, result>>

NextRequest == CallRequest \/ AttemptRequest

SpecRequest == InitRequest /\ [][NextRequest]_vars

\* ================================================================ claims
IsSuccess(o) == o.exc = None /\ 200 <= o.status /\ o.status < 300
Answered(o, status) == o.exc = None /\ o.status = status
\* The retries left after attempt i of the call.
RetriesAfter(i) == IF i < Len(hist) THEN hist[i + 1].before ELSE retries
TokenExpiredLog == "Token expired: Refreshing token"

\* C1: when an attempt of request receives a 401, request issues no further
\* attempt and raises VerkadaTokenExpiredError to its caller, and the 401
\* consumes no retry.
C1_TokenExpiredIsRaised ==
    \A i \in 1..Len(hist) :
        Answered(hist[i].outcome, 401) =>
            /\ i = Len(hist)
            /\ rpc = "raised"
            /\ err.type = "VerkadaTokenExpiredError"
            /\ RetriesAfter(i) = hist[i].before

\* C2: when a request of getAuditLogsViewV1 or getNotificationsViewV1 has
\* received a 401, the next request the client sends is the POST /token that
\* obtains a new credential; the request that got the 401 is not sent again
\* with the old token.
C2_RefreshAfterTokenExpired ==
    [][(/\ cpc = "pages"
        /\ log = TokenExpiredLog
        /\ Len(wire') = Len(wire) + 1)
       => wire'[Len(wire')].url = "/token"]_vars

\* C3: when getAuditLogsViewV1 or getNotificationsViewV1 of a client that has
\* an API key is about to issue its first request, the token in the request
\* is the client's credential, which is present and not expired (by the
\* code's own test of expiry).
C3_FirstRequestHasValidToken ==
    (/\ cpc = "pages"
     /\ number_of_pages = 1
     /\ wire = <<>>
     /\ api_key # None)
    => /\ Truthy(token)
       /\ req.headers.value = token
       /\ timestamp # NoTime
       /\ ~IsExpired(timestamp, now)

\* C4: one call of request issues at most max_retries (3) HTTP attempts,
\* whatever the attempts end in.
C4_AtMostMaxRetriesAttempts == Len(wire) <= MAX_RETRIES

\* C5: when request_all_pages returns, the sequence it returns for every field
\* named in keys is the concatenation, in page order and in the order within
\* each page, of that field in every page response received.
RECURSIVE Concatenation(_, _)
Concatenation(pages, k) ==
    IF pages = <<>> THEN <<>>
    ELSE GetItem(Head(pages).json, k) \o Concatenation(Tail(pages), k)

C5_ResultIsConcatenation ==
    (result.op \in Operations /\ result.status = "returned")
    => result.data =
         {<<k, Concatenation(received, k)>> : k \in {ListField(UrlOf(result.op))}}

C5_Witness ==
    /\ result.op = "getAuditLogsViewV1"
    /\ result.status = "returned"
    /\ Len(received) = 2
    /\ GetItem(result.data, "audit_logs") = <<2, 3, 1>>

\* C6: request_all_pages issues at least one request; every request after the
\* first carries as page_token the next_page_token of the response before it
\* (the first carries None); and the first response whose next_page_token is
\* empty, null or absent is the last one: after it request_all_pages returns
\* the aggregate.
IsFinalPage(json) ==
    \/ ~HasKey(json, "next_page_token")
    \/ ~Truthy(GetItem(json, "next_page_token"))

C6_PaginationProtocol ==
    /\ \A k \in 1..Len(received) :
          IsFinalPage(received[k].json) =>
              /\ k = Len(received)
              /\ cpc = "ready"
              /\ result.status = "returned"
    /\ \A k \in 1..Len(received) :
          received[k].sent =
              IF k = 1 THEN None
              ELSE GetItem(received[k - 1].json, "next_page_token")
    /\ (result.op \in Operations /\ result.status = "returned")
          => Len(received) >= 1

\* C7: a facade operation that ends in an error gives its caller the error
\* and no records, whatever pages it had fetched; it returns records only
\* after the response of a final page, so never a part of the pages.
C7_NoPartialResult ==
    result.op \in Operations =>
        /\ result.status = "raised" =>
              /\ result.data = {}
              /\ result.err.type # None
        /\ result.status = "returned" =>
              /\ received # <<>>
              /\ IsFinalPage(received[Len(received)].json)

C7_Witness ==
    /\ result.op = "getAuditLogsViewV1"
    /\ result.status = "raised"
    /\ result.err.type = "VerkadaConnectionError"
    /\ Len(received) = 1
    /\ result.data = {}

\* C8: when an attempt of request receives a 409, request raises
\* VerkadaAuthenticationError at once: it does not sleep, consumes no retry
\* and issues no further attempt, whatever number of retries is left.
C8_ConflictRaisesAtOnce ==
    \A i \in 1..Len(hist) :
        Answered(hist[i].outcome, 409) =>
            /\ i = Len(hist)
            /\ Len(wire) = i
            /\ rpc = "raised"
            /\ err.type = "VerkadaAuthenticationError"
            /\ hist[i].slept = 0
            /\ retries = hist[i].before

C8_Witness ==
    /\ Len(hist) = 2
    /\ Answered(hist[1].outcome, 500)
    /\ Answered(hist[2].outcome, 409)
    /\ hist[2].before = 2
    /\ rpc = "raised"

\* C9 as stated: on every 429 request sleeps RETRY_WAIT_TIME, consumes one
\* retry and issues the same request again; a 429 followed by a 2xx returns
\* the 2xx after one wait.
C9_RateLimitAlwaysRetried ==
    /\ \A i \in 1..Len(hist) :
          Answered(hist[i].outcome, 429) =>
              /\ hist[i].slept = RETRY_WAIT_TIME
              /\ RetriesAfter(i) = hist[i].before - 1
              /\ (i < Len(hist) \/ rpc = "loop")
    /\ \A j \in 1..Len(wire) : wire[j] = req

\* C9 as amended: on every 429 request sleeps RETRY_WAIT_TIME and consumes one
\* retry; it issues the same request again if a retry is left, and raises
\* after the sleep if the 429 took the last retry; a single 429 followed by a
\* 2xx returns that 2xx after one wait of RETRY_WAIT_TIME and raises nothing.
C9_RateLimitRetriedWhileRetriesLeft ==
    /\ \A i \in 1..Len(hist) :
          Answered(hist[i].outcome, 429) =>
              /\ hist[i].slept = RETRY_WAIT_TIME
              /\ RetriesAfter(i) = hist[i].before - 1
              /\ hist[i].before > 1 => (i < Len(hist) \/ rpc = "loop")
              /\ hist[i].before = 1 => (i = Len(hist) /\ rpc = "raised")
    /\ \A j \in 1..Len(wire) : wire[j] = req
    /\ (/\ Len(hist) = 2
        /\ Answered(hist[1].outcome, 429)
        /\ IsSuccess(hist[2].outcome))
       => /\ rpc = "returned"
          /\ response = hist[2].outcome
          /\ err = NoErr
          /\ hist[1].slept + hist[2].slept = RETRY_WAIT_TIME

C9_Witness ==
    /\ Len(hist) = 2
    /\ Answered(hist[1].outcome, 429)
    /\ Answered(hist[2].outcome, 299)
    /\ rpc = "returned"

\* C10: when an attempt of request receives a status in [200,300), request
\* returns that response at once: it does not sleep, consumes no retry and
\* issues no further attempt, whatever the attempts before it ended in.
C10_SuccessReturnsAtOnce ==
    \A i \in 1..Len(hist) :
        IsSuccess(hist[i].outcome) =>
            /\ i = Len(hist)
            /\ Len(wire) = i
            /\ rpc = "returned"
            /\ response = hist[i].outcome
            /\ hist[i].slept = 0
            /\ retries = hist[i].before

C10_Witness ==
    /\ Len(hist) = 3
    /\ hist[1].outcome.exc = "Timeout"
    /\ Answered(hist[2].outcome, 429)
    /\ Answered(hist[3].outcome, 299)
    /\ rpc = "returned"
    /\ retries = 1

\* The call has left its while loop with no retry left.
Exhausted == rpc = "raised" /\ retries = 0 /\ hist # <<>>
\* The attempts of the call that ended in an exception except RequestException
\* catches, and the last of these exceptions (None if there is none).
RaisedAt == {i \in 1..Len(hist) : hist[i].outcome.exc \in RequestExceptions}
LastRaised ==
    IF RaisedAt = {} THEN None
    ELSE hist[CHOOSE i \in RaisedAt : \A j \in RaisedAt : j <= i].outcome.exc
\* The error the claim expects for a last failed attempt that ended in f.
ErrorFor(f) ==
    IF f.exc \in TransportExceptions
    THEN Err("VerkadaConnectionError", "Failed to connect")
    ELSE IF f.exc \in RequestExceptions THEN Err(f.exc, "last_exception")
    ELSE Err("VerkadaConnectionError", "Request failed")

\* C11 as stated: when request exhausts its retries, the error it raises is
\* the one for its last failed attempt: the transport VerkadaConnectionError
\* if that attempt was a transport failure, the exception itself if it was
\* another RequestException, and the generic retries-exhausted
\* VerkadaConnectionError if it raised nothing; an earlier attempt never
\* decides the error.
C11_LastFailureDecides ==
    Exhausted => err = ErrorFor(hist[Len(hist)].outcome)

\* C11 as amended: the error is decided by the last exception session.request
\* raised in the call, on whichever attempt: the transport
\* VerkadaConnectionError if it was a ConnectionError or Timeout, the
\* exception itself if it was another RequestException, and the generic
\* retries-exhausted VerkadaConnectionError if no attempt raised one. A later
\* attempt that failed with an HTTP status does not change it.
C11_LastExceptionDecides ==
    Exhausted =>
        err = IF LastRaised = None
              THEN Err("VerkadaConnectionError", "Request failed")
              ELSE IF LastRaised \in {"ConnectionError", "Timeout"}
              THEN Err("VerkadaConnectionError", "Failed to connect")
              ELSE Err(LastRaised, "last_exception")

C11_Witness ==
    /\ Exhausted
    /\ Len(hist) = 3
    /\ hist[1].outcome.exc = "TooManyRedirects"
    /\ hist[2].outcome.exc = "Timeout"
    /\ Answered(hist[3].outcome, 503)
    /\ err = Err("VerkadaConnectionError", "Failed to connect")

\* A client is constructed with an API key while token.json holds a record
\* with a timestamp, so that _readToken reaches its expiry test.
LoadsRecord ==
    /\ Construct("key")
    /\ file.tag = "json"
    /\ file.has_timestamp

\* C12 as stated: the loaded credential is valid only while
\* now - issuedAt < 1500: loading it triggers a refresh for every
\* now - issuedAt >= 1500, exactly 1500 included, and none below 1500.
C12_ValidOnlyBelowWindow ==
    [][LoadsRecord =>
          ((cpc' = "readToken") <=> (now - file.timestamp >= ExpirationSeconds))]_vars

\* C12 as amended: the loaded credential is valid while
\* now - issuedAt <= 1500: loading it triggers a refresh exactly when
\* now - issuedAt > 1500, and a credential exactly 1500 seconds old is kept.
C12_ValidUpToWindow ==
    [][LoadsRecord =>
          ((cpc' = "readToken") <=> (now - file.timestamp > ExpirationSeconds))]_vars

C12_Witness ==
    /\ cpc = "ready"
    /\ log = ReadingLog
    /\ api_key = "key"
    /\ file.tag = "json"
    /\ timestamp = file.timestamp
    /\ now - timestamp = ExpirationSeconds

\* token.json holds nothing _readToken can use as a credential: it is
\* missing, is not JSON (empty, torn, garbage), or lacks one of its fields.
RecordUnusable ==
    \/ file.tag \in {"absent", "malformed"}
    \/ file.tag = "json" /\ (~file.has_token \/ ~file.has_timestamp)

\* C13: loading the persisted credential never raises: when token.json is
\* missing, empty, torn, not JSON or lacks the token or the timestamp field,
\* the construction does not fail but goes on to authenticate afresh.
C13_LoadFailsSoft ==
    [][(Construct("key") /\ RecordUnusable) => cpc' \in {"readToken", "init"}]_vars

\* C14: whatever happens while _refreshToken saves, process death included,
\* token.json afterwards is the complete previous record or the complete new
\* one: a step that changes the file leaves a well-formed record with both
\* fields.
C14_SaveIsAtomic ==
    [][file' # file =>
          (file'.tag = "json" /\ file'.has_token /\ file'.has_timestamp)]_vars

\* _refreshToken saves: a step that leaves a new record in token.json.
Saves == file' # file /\ file'.tag = "json"
\* A client is constructed with an API key on a record that holds a
\* non-empty token and is younger than the expiration window.
LoadsFreshRecord ==
    /\ Construct("key")
    /\ file.tag = "json"
    /\ file.has_token /\ Truthy(file.token)
    /\ file.has_timestamp /\ now - file.timestamp < ExpirationSeconds

\* C15: save and load round-trip. The record _refreshToken saves holds
\* exactly the token and timestamp it has put in memory, and a later load of
\* that record by _readToken, within the expiration window, puts exactly that
\* token and timestamp in memory, ends the construction and issues no token
\* request (and so saves nothing).
C15_SaveLoadRoundTrip ==
    [][/\ Saves =>
            file' = [tag |-> "json", has_token |-> TRUE, token |-> token',
                     has_timestamp |-> TRUE, timestamp |-> timestamp']
       /\ LoadsFreshRecord =>
            /\ token' = file.token
            /\ timestamp' = file.timestamp
            /\ cpc' = "ready"
            /\ rpc' = "idle" /\ wire' = <<>>
            /\ file' = file]_vars

\* A client has loaded, without a token request, a record that a
\* _refreshToken before it saved (the server's token, not the one of an
\* earlier run).
C15_Witness ==
    /\ cpc = "ready"
    /\ log = ReadingLog
    /\ token \in ServerTokens
    /\ file = FileRecord(token, timestamp)
    /\ now - timestamp < ExpirationSeconds
    /\ rpc = "idle"

\* C16: when POST /token returns a 2xx response whose JSON body has no token
\* field, the authentication fails with VerkadaAuthenticationError, and
\* neither the credential in memory nor the persisted record is changed.
\* (The construction failing on the missing field is the one whose error
\* names the field.)
C16_MissingTokenIsAuthError ==
    [][(cpc \in {"readToken", "init"} /\ cpc' = "failed"
            /\ result'.err.msg = "token") =>
          /\ result'.err.type = "VerkadaAuthenticationError"
          /\ token' = token /\ timestamp' = timestamp
          /\ file' = file]_vars

\* C17: every request getAuditLogsViewV1 and getNotificationsViewV1 hand to
\* request, on every page, the first included, carries query parameters in
\* which no key has the value None.
C17_NoNullQueryParameter ==
    cpc = "pages" => \A p \in req.params : p[2] # None

\* The outcome is a ServerError (5xx), a ClientError (4xx other than 401, 409
\* and 429) or a transport failure.
BacksOff(o) ==
    \/ o.exc = None /\ 400 <= o.status /\ o.status \notin {401, 409, 429}
    \/ o.exc \in TransportExceptions

\* C18: after a failed attempt that is a ServerError, a ClientError or a
\* transport failure, request has consumed exactly one retry and, if a retry
\* is left, has slept exactly n * RETRY_WAIT_TIME seconds, n being the ordinal
\* number of that attempt within the call, whatever the attempts before it
\* ended in.
C18_BackoffByOrdinal ==
    \A i \in 1..Len(hist) :
        BacksOff(hist[i].outcome) =>
            /\ RetriesAfter(i) = hist[i].before - 1
            /\ RetriesAfter(i) > 0 => hist[i].slept = i * RETRY_WAIT_TIME

\* Attempt i of the call neither made request return nor made it raise: the
\* loop went on after it.
LoopWentOn(i) == i < Len(hist) \/ (i = Len(hist) /\ rpc = "loop")

\* C20: every call of request terminates whatever the attempts end in,
\* because each attempt that neither returns nor raises consumes one retry
\* of the max_retries the call starts with.
C20_EveryPassConsumesRetry ==
    \A i \in 1..Len(hist) :
        LoopWentOn(i) => RetriesAfter(i) = hist[i].before - 1

\* token.json holds a credential the client accepts: a record with a
\* non-empty token that the expiry test of _readToken does not reject.
StoreHoldsValid ==
    /\ file.tag = "json"
    /\ file.has_token /\ Truthy(file.token)
    /\ file.has_timestamp /\ ~IsExpired(file.timestamp, now)

\* C19: a POST /token is issued only while the credential store holds no
\* valid credential (file absent, token missing or empty, or expired by the
\* store's test). A construction on a stored, non-empty, unexpired credential
\* enters no token request, and no construction is in a token request once a
\* valid credential has been obtained and saved.
C19_TokenRequestOnlyWithoutValid ==
    (cpc \in {"readToken", "init"} /\ rpc = "loop") => ~StoreHoldsValid

\* A token request is in progress because the stored credential has expired.
C19_Witness ==
    /\ cpc = "readToken"
    /\ rpc = "loop"
    /\ Len(wire) >= 1
    /\ file.tag = "json"
    /\ Truthy(file.token)
    /\ IsExpired(file.timestamp, now)

====
